---- MODULE Spec2Model ----
(***************************************************************************)
(* Model of the staged review pipeline of .certik/scripts:                 *)
(*   codex_runner.py       run_codex                                        *)
(*   codex_eip_reviewer.py parse_diff, write_diff_chunks, load_json_block,  *)
(*                         normalize_issues, run_codex_json, stage_one,     *)
(*                         stage_two, stage_dedupe, stage_three_validate,   *)
(*                         build_comments, main                             *)
(* One behaviour is one invocation of main().  The reasoning engine, the    *)
(* file system and the hosting API are the environment: their answers are   *)
(* chosen nondeterministically from the sets defined below.                 *)
(***************************************************************************)
EXTENDS Integers, Sequences, FiniteSets, TLC

(***************************************************************************)
(* JSON values as json.loads returns them.  Every value is a record of the  *)
(* same shape: t is the Python type, n the integer content (the truncated   *)
(* value of a float, the length of a container), s the string content.      *)
(* "absent" is a key that the object does not have.                         *)
(***************************************************************************)
Absent == [t |-> "absent", n |-> 0, s |-> ""]
Null == [t |-> "null", n |-> 0, s |-> ""]
Num(i) == [t |-> "num", n |-> i, s |-> ""]
Frac(i) == [t |-> "frac", n |-> i, s |-> ""]
Inf == [t |-> "inf", n |-> 0, s |-> ""]
NaN == [t |-> "nan", n |-> 0, s |-> ""]
Str(x) == [t |-> "str", n |-> 0, s |-> x]
Lst(len) == [t |-> "list", n |-> len, s |-> ""]

\* Python truth value of a JSON value (the test behind `x or y`).
Truthy(v) ==
  CASE v.t \in {"absent", "null"} -> FALSE
    [] v.t = "num" -> v.n /= 0
    [] v.t = "str" -> v.s /= ""
    [] v.t = "list" -> v.n > 0
    [] OTHER -> TRUE

\* Python `a or b`.
PyOr(a, b) == IF Truthy(a) THEN a ELSE b

\* dict.get(key): None when the key is missing.
Get(e, key) == IF e[key].t = "absent" THEN Null ELSE e[key]

\* dict.get(key, ""): the default only when the key is missing.
GetDefault(e, key, dflt) == IF e[key].t = "absent" THEN dflt ELSE e[key]

\* int(str): the decimal strings of the model; every other string raises.
ParseInt(x) ==
  CASE x = "12" -> [exc |-> "none", n |-> 12]
    [] x = "0" -> [exc |-> "none", n |-> 0]
    [] x = "-4" -> [exc |-> "none", n |-> 0 - 4]
    [] OTHER -> [exc |-> "ValueError", n |-> 0]

\* int(v): the value, or the exception int() raises.
PyInt(v) ==
  CASE v.t = "num" -> [exc |-> "none", n |-> v.n]
    [] v.t = "frac" -> [exc |-> "none", n |-> v.n]
    [] v.t = "str" -> ParseInt(v.s)
    [] v.t = "nan" -> [exc |-> "ValueError", n |-> 0]
    [] v.t = "inf" -> [exc |-> "OverflowError", n |-> 0]
    [] OTHER -> [exc |-> "TypeError", n |-> 0]

\* str.upper() on the strings of the model.
Upper(x) ==
  CASE x = "valid" -> "VALID"
    [] x = "partial" -> "PARTIAL"
    [] x = "invalid" -> "INVALID"
    [] x = "high" -> "HIGH"
    [] x = "low" -> "LOW"
    [] OTHER -> x

\* str.strip() on the strings of the model.
Strip(x) ==
  CASE x = " risk " -> "risk"
    [] x = "  " -> ""
    [] OTHER -> x

(***************************************************************************)
(* Entries of an issues/validated list.  An entry that is a JSON object is  *)
(* a function from the keys the code reads to JSON values; any other list   *)
(* element keeps only its type.                                             *)
(***************************************************************************)
Fields == {"path", "line", "line_number", "suggestion", "description",
           "message", "text", "severity", "impact", "spec_ref", "source",
           "stage", "verdict", "recommendation", "justification", "reason"}

NoFields == [k \in Fields |-> Absent]
Obj(f) == [k |-> "obj", f |-> f]
NonObj(kind) == [k |-> kind, f |-> NoFields]

\* The value stored under "issues", "reviews" or "validated".
NoList == [t |-> "absent", items |-> <<>>]
List(items) == [t |-> "list", items |-> items]
Scalar(kind) == [t |-> kind, items |-> <<>>]

\* Truth value of such a value: scalars of the model are non-zero/non-empty.
ListTruthy(l) ==
  CASE l.t \in {"absent", "null"} -> FALSE
    [] l.t = "list" -> l.items /= <<>>
    [] OTHER -> TRUE

ListOr(a, b) == IF ListTruthy(a) THEN a ELSE b

\* What json.loads returned: k is the type of the top-level value.
Payload(issues, reviews, validated, summary) ==
  [k |-> "obj", issues |-> issues, reviews |-> reviews,
   validated |-> validated, summary |-> summary]
EmptyObj == Payload(NoList, NoList, NoList, Absent)
TopLevel(kind) == [EmptyObj EXCEPT !.k = kind]

(***************************************************************************)
(* The text a reasoning-engine call prints: a sequence of segments.  A      *)
(* "json" segment is the serialisation of one JSON value, "prose" is text   *)
(* without braces that is not JSON, "lbrace"/"rbrace" a stray brace.        *)
(***************************************************************************)
Prose == [g |-> "prose", val |-> EmptyObj]
Json(val) == [g |-> "json", val |-> val]
LBrace == [g |-> "lbrace", val |-> EmptyObj]
RBrace == [g |-> "rbrace", val |-> EmptyObj]

HasOpen(seg) == seg.g = "lbrace" \/ (seg.g = "json" /\ seg.val.k = "obj")
HasClose(seg) == seg.g = "rbrace" \/ (seg.g = "json" /\ seg.val.k = "obj")

SetMin(S) == CHOOSE x \in S : \A y \in S : x <= y
SetMax(S) == CHOOSE x \in S : \A y \in S : x >= y

\* json.loads(text) succeeds exactly on a text that is one JSON value.
IsJson(text) == Len(text) = 1 /\ text[1].g = "json"

\* re.search(r"(\{.*\})", text, re.DOTALL): from the first "{" that has a
\* "}" behind it to the last "}" of the text; <<0, 0>> when nothing matches.
BraceSpan(text) ==
  LET opens == {i \in 1..Len(text) : HasOpen(text[i])}
      closes == {i \in 1..Len(text) : HasClose(text[i])}
  IN IF opens = {} \/ closes = {} THEN <<0, 0>>
     ELSE IF SetMax(closes) < SetMin(opens) THEN <<0, 0>>
     ELSE <<SetMin(opens), SetMax(closes)>>

load_json_block(text) ==
  IF IsJson(text) THEN text[1].val
  ELSE LET span == BraceSpan(text)
       IN IF span[1] = 0 THEN EmptyObj
          ELSE IF span[1] = span[2] /\ text[span[1]].g = "json"
               THEN text[span[1]].val
               ELSE EmptyObj

(***************************************************************************)
(* normalize_issues.  The result carries the exception that escapes the     *)
(* function ("none" when it returns).                                       *)
(***************************************************************************)
\* int(entry.get("line") or entry.get("line_number") or 0) under
\* except (TypeError, ValueError): line = 0
CoerceLine(e) ==
  LET r == PyInt(PyOr(PyOr(Get(e, "line"), Get(e, "line_number")), Num(0)))
  IN IF r.exc \in {"TypeError", "ValueError"} THEN [exc |-> "none", n |-> 0]
     ELSE r

\* The chain with description tried before suggestion.
IssueTextDescriptionFirst(e) ==
  PyOr(PyOr(PyOr(PyOr(Get(e, "description"), Get(e, "suggestion")),
                 Get(e, "message")), Get(e, "text")), Str(""))

IssueText(e) ==
  PyOr(PyOr(PyOr(PyOr(Get(e, "suggestion"), Get(e, "description")),
                 Get(e, "message")), Get(e, "text")), Str(""))

\* One iteration of the loop of normalize_issues: the finding appended
\* (keep), nothing (keep = FALSE), or the exception raised.
NormalizeEntry(entry, default_path, stage) ==
  IF entry.k /= "obj" THEN [exc |-> "AttributeError", keep |-> FALSE, item |-> <<>>]
  ELSE LET e == entry.f
           suggestion == IssueText(e)
           line == CoerceLine(e)
           sev == PyOr(PyOr(Get(e, "severity"), Get(e, "impact")), Str(""))
       IN IF ~Truthy(suggestion) THEN [exc |-> "none", keep |-> FALSE, item |-> <<>>]
          ELSE IF line.exc /= "none" THEN [exc |-> line.exc, keep |-> FALSE, item |-> <<>>]
          ELSE IF sev.t /= "str" THEN [exc |-> "AttributeError", keep |-> FALSE, item |-> <<>>]
          ELSE [exc |-> "none", keep |-> TRUE,
                item |-> << [path |-> PyOr(Get(e, "path"), Str(default_path)),
                             line |-> line.n,
                             suggestion |-> suggestion,
                             severity |-> Upper(sev.s),
                             spec_ref |-> PyOr(Get(e, "spec_ref"), Str("")),
                             stage |-> stage,
                             source |-> PyOr(PyOr(Get(e, "source"), Get(e, "stage")), Str(stage))] >>]

RECURSIVE NormalizeLoop(_, _, _, _)
NormalizeLoop(items, default_path, stage, acc) ==
  IF items = <<>> THEN [exc |-> "none", issues |-> acc]
  ELSE LET r == NormalizeEntry(Head(items), default_path, stage)
       IN IF r.exc /= "none" THEN [exc |-> r.exc, issues |-> acc]
          ELSE NormalizeLoop(Tail(items), default_path, stage, acc \o r.item)

\* `for entry in entries` over a value that is not a list: a number is not
\* iterable, a string or an object yields strings, which have no .get.
IterExc(l) == IF l.t = "num" THEN "TypeError" ELSE "AttributeError"

normalize_issues(payload, default_path, stage) ==
  IF payload.k /= "obj" THEN [exc |-> "AttributeError", issues |-> <<>>, summary |-> ""]
  ELSE LET entries == ListOr(ListOr(payload.issues, payload.reviews), List(<<>>))
           summary == PyOr(Get(payload, "summary"), Str(""))
       IN IF entries.t /= "list"
          THEN [exc |-> IterExc(entries), issues |-> <<>>, summary |-> ""]
          ELSE LET r == NormalizeLoop(entries.items, default_path, stage, <<>>)
               IN IF r.exc /= "none" THEN [exc |-> r.exc, issues |-> <<>>, summary |-> ""]
                  ELSE IF summary.t /= "str"
                       THEN [exc |-> "AttributeError", issues |-> <<>>, summary |-> ""]
                       ELSE [exc |-> "none", issues |-> r.issues, summary |-> Strip(summary.s)]

(***************************************************************************)
(* stage_three_validate, the part after the call (lines 274-307).           *)
(***************************************************************************)
Verdicts == {"VALID", "SPEC-AMBIGUOUS", "PARTIAL"}

\* One iteration of the loop of stage_three_validate.
ValidateEntry(entry) ==
  IF entry.k /= "obj" THEN [exc |-> "AttributeError", keep |-> FALSE, item |-> <<>>]
  ELSE LET e == entry.f
           v == PyOr(Get(e, "verdict"), Str(""))
           line == CoerceLine(e)
           path == PyOr(Get(e, "path"), Str(""))
           sev == GetDefault(e, "severity", Str(""))
       IN IF v.t /= "str" THEN [exc |-> "AttributeError", keep |-> FALSE, item |-> <<>>]
          ELSE IF Upper(v.s) \notin Verdicts THEN [exc |-> "none", keep |-> FALSE, item |-> <<>>]
          ELSE IF line.exc /= "none" THEN [exc |-> line.exc, keep |-> FALSE, item |-> <<>>]
          ELSE IF ~Truthy(path) \/ line.n <= 0 THEN [exc |-> "none", keep |-> FALSE, item |-> <<>>]
          ELSE IF sev.t /= "str" THEN [exc |-> "AttributeError", keep |-> FALSE, item |-> <<>>]
          ELSE [exc |-> "none", keep |-> TRUE,
                item |-> << [path |-> path,
                             line |-> line.n,
                             verdict |-> Upper(v.s),
                             severity |-> Upper(sev.s),
                             suggestion |-> PyOr(PyOr(PyOr(Get(e, "recommendation"), Get(e, "suggestion")),
                                                      Get(e, "description")), Str("")),
                             justification |-> PyOr(PyOr(Get(e, "justification"), Get(e, "reason")), Str("")),
                             spec_ref |-> PyOr(Get(e, "spec_ref"), Str("")),
                             source |-> PyOr(PyOr(Get(e, "source"), Get(e, "stage")), Str(""))] >>]

RECURSIVE ValidateLoop(_, _)
ValidateLoop(items, acc) ==
  IF items = <<>> THEN [exc |-> "none", validated |-> acc]
  ELSE LET r == ValidateEntry(Head(items))
       IN IF r.exc /= "none" THEN [exc |-> r.exc, validated |-> acc]
          ELSE ValidateLoop(Tail(items), acc \o r.item)

\* data.get("validated") or data.get("issues") or []
ValidatedEntries(data) == ListOr(ListOr(data.validated, data.issues), List(<<>>))

validate_payload(data) ==
  IF data.k /= "obj" THEN [exc |-> "AttributeError", validated |-> <<>>]
  ELSE LET entries == ValidatedEntries(data)
       IN IF entries.t /= "list" THEN [exc |-> IterExc(entries), validated |-> <<>>]
          ELSE LET r == ValidateLoop(entries.items, <<>>)
               IN IF r.exc /= "none" THEN [exc |-> r.exc, validated |-> <<>>] ELSE r

(***************************************************************************)
(* build_comments.  The body is kept as the list that "\n".join receives:   *)
(* the header with verdict and severity tag, then the labelled parts.       *)
(***************************************************************************)
BodyPart(tag, val) == [tag |-> tag, val |-> val, sev |-> ""]

\* The body with the justification put before the suggestion.
BodyLinesReasonFirst(item) ==
  << [tag |-> "header", val |-> Str(item.verdict), sev |-> item.severity] >>
  \o (IF Truthy(item.justification) THEN <<BodyPart("Reason", item.justification)>> ELSE <<>>)
  \o (IF Truthy(item.suggestion) THEN <<BodyPart("suggestion", item.suggestion)>> ELSE <<>>)
  \o (IF Truthy(item.spec_ref) THEN <<BodyPart("Spec", item.spec_ref)>> ELSE <<>>)
  \o (IF Truthy(item.source) THEN <<BodyPart("Source stage", item.source)>> ELSE <<>>)

BodyLines(item) ==
  << [tag |-> "header", val |-> Str(item.verdict), sev |-> item.severity] >>
  \o (IF Truthy(item.suggestion) THEN <<BodyPart("suggestion", item.suggestion)>> ELSE <<>>)
  \o (IF Truthy(item.justification) THEN <<BodyPart("Reason", item.justification)>> ELSE <<>>)
  \o (IF Truthy(item.spec_ref) THEN <<BodyPart("Spec", item.spec_ref)>> ELSE <<>>)
  \o (IF Truthy(item.source) THEN <<BodyPart("Source stage", item.source)>> ELSE <<>>)

\* `if not path or not line: continue`
Unanchored(item) == ~Truthy(item.path) \/ item.line = 0

\* "\n".join(body_lines): the suggestion is appended as it is (line 323) and
\* join accepts strings only; the other parts are formatted into f-strings.
JoinRaises(item) == Truthy(item.suggestion) /\ item.suggestion.t /= "str"

RECURSIVE BuildLoop(_, _)
BuildLoop(items, acc) ==
  IF items = <<>> THEN [exc |-> "none", comments |-> acc]
  ELSE LET item == Head(items)
       IN IF Unanchored(item) THEN BuildLoop(Tail(items), acc)
          ELSE IF JoinRaises(item) THEN [exc |-> "TypeError", comments |-> <<>>]
          ELSE BuildLoop(Tail(items),
                         Append(acc, [path |-> item.path, line |-> item.line,
                                      body |-> BodyLines(item), side |-> "RIGHT"]))

\* The comments, or the exception that leaves build_comments.
build_comments(validated) == BuildLoop(validated, <<>>)

(***************************************************************************)
(* parse_diff.  A diff line is a header `diff --git a/<old> b/<path>` or    *)
(* any other line; the chunk content is the list "\n".join receives.  The   *)
(* mapping is a Python dict: a sequence of keys in insertion order, and an  *)
(* assignment to an existing key replaces its value in place.               *)
(***************************************************************************)
Header(p) == [hdr |-> TRUE, path |-> p, txt |-> ""]
Line(x) == [hdr |-> FALSE, path |-> "", txt |-> x]

DictKeys(d) == [i \in 1..Len(d) |-> d[i].path]
HasKey(d, k) == \E i \in 1..Len(d) : d[i].path = k
DictSet(d, k, v) ==
  IF HasKey(d, k)
  THEN [i \in 1..Len(d) |-> IF d[i].path = k THEN [path |-> k, content |-> v] ELSE d[i]]
  ELSE Append(d, [path |-> k, content |-> v])

\* The flush without the `if current_file:` test.
FlushUnchecked(d, cur, chunk) == DictSet(d, cur.path, chunk)

\* `if current_file:` is false for None and for the empty string.
Flush(d, cur, chunk) ==
  IF cur.set /\ cur.path /= "" THEN DictSet(d, cur.path, chunk) ELSE d

\* The loop with a chunk that starts empty instead of with its header line.
RECURSIVE ParseLoopDropsHeader(_, _, _, _)
ParseLoopDropsHeader(lines, d, cur, chunk) ==
  IF lines = <<>> THEN Flush(d, cur, chunk)
  ELSE LET l == Head(lines)
       IN IF l.hdr
          THEN ParseLoopDropsHeader(Tail(lines), Flush(d, cur, chunk), [set |-> TRUE, path |-> l.path], <<>>)
          ELSE ParseLoopDropsHeader(Tail(lines), d, cur, Append(chunk, l))

RECURSIVE ParseLoop(_, _, _, _)
ParseLoop(lines, d, cur, chunk) ==
  IF lines = <<>> THEN Flush(d, cur, chunk)
  ELSE LET l == Head(lines)
       IN IF l.hdr
          THEN ParseLoop(Tail(lines), Flush(d, cur, chunk), [set |-> TRUE, path |-> l.path], <<l>>)
          ELSE ParseLoop(Tail(lines), d, cur, Append(chunk, l))

\* The lines in front of the first header put into the chunk of the first file.
parse_diffKeepsPrelude(diff_text) ==
  LET d == ParseLoop(diff_text, <<>>, [set |-> FALSE, path |-> ""], <<>>)
      hs == {i \in 1..Len(diff_text) : diff_text[i].hdr}
  IN IF d = <<>> THEN d
     ELSE [d EXCEPT ![1].content = SubSeq(diff_text, 1, SetMin(hs) - 1) \o @]

parse_diff(diff_text) == ParseLoop(diff_text, <<>>, [set |-> FALSE, path |-> ""], <<>>)

(***************************************************************************)
(* Path(path).suffix in SKIP_EXTENSIONS.                                    *)
(***************************************************************************)
\* The characters of the paths of the model.
Chars(p) ==
  CASE p = "a.py" -> <<"a", ".", "p", "y">>
    [] p = "b.py" -> <<"b", ".", "p", "y">>
    [] p = "README.md" -> <<"R", "E", "A", "D", "M", "E", ".", "m", "d">>
    [] p = "go.lock" -> <<"g", "o", ".", "l", "o", "c", "k">>
    [] p = "d/.md" -> <<"d", "/", ".", "m", "d">>
    [] OTHER -> <<>>

\* str.rfind(c), 1-based; 0 when c does not occur.
RFind(cs, c) ==
  LET S == {i \in 1..Len(cs) : cs[i] = c}
  IN IF S = {} THEN 0 ELSE SetMax(S)

\* PurePath.name: the last component.
PathName(cs) == SubSeq(cs, RFind(cs, "/") + 1, Len(cs))

\* PurePath.suffix: from the last dot of the name, unless the name starts
\* or ends with that dot.
PathSuffix(cs) ==
  LET name == PathName(cs)
      i == RFind(name, ".")
  IN IF 1 < i /\ i < Len(name) THEN SubSeq(name, i, Len(name)) ELSE <<>>

SKIP_EXTENSIONS == {<<".", "m", "d">>, <<".", "t", "x", "t">>, <<".", "l", "o", "c", "k">>}

Skipped(path) == PathSuffix(Chars(path)) \in SKIP_EXTENSIONS

(***************************************************************************)
(* Inputs of a run: the diff file and the answers of the reasoning engine.  *)
(***************************************************************************)
\* Largest number of file sections in the diff of a run.
MaxFiles == 2

FilePaths == {"a.py", "b.py", "README.md", "d/.md"}

RECURSIVE SeqsUpTo(_, _)
SeqsUpTo(S, n) ==
  IF n = 0 THEN {<<>>}
  ELSE LET shorter == SeqsUpTo(S, n - 1)
       IN shorter \cup {Append(q, x) : q \in {r \in shorter : Len(r) = n - 1}, x \in S}

\* The diff with one section (header line and one hunk line) per file of fs.
RECURSIVE DiffOf(_)
DiffOf(fs) ==
  IF fs = <<>> THEN <<>>
  ELSE DiffOf(SubSeq(fs, 1, Len(fs) - 1))
       \o <<Header(fs[Len(fs)]), Line("+")>>

\* Diffs of whole file sections, and texts without any header line.
Diffs ==
  {DiffOf(fs) : fs \in SeqsUpTo(FilePaths, MaxFiles)}
  \cup {<<Line("note")>>, <<Line("note"), Line("+")>>}

\* Entries the reasoning engine puts into an issues list.
GoodIssue ==
  Obj([NoFields EXCEPT !.path = Str("a.py"), !.line = Num(3),
                       !.suggestion = Str("fix"), !.severity = Str("high")])
BareIssue == Obj([NoFields EXCEPT !.description = Str("desc")])
EmptyIssue == Obj([NoFields EXCEPT !.path = Str("a.py"), !.line = Num(3), !.severity = Str("HIGH")])
NumSeverityIssue == Obj([GoodIssue.f EXCEPT !.severity = Num(2)])
InfLineIssue == Obj([GoodIssue.f EXCEPT !.line = Inf])

IssuesPayload(items) == Payload(List(items), NoList, NoList, Absent)

Ok(text) == [status |-> 0, text |-> text]
Failed == [status |-> 1, text |-> <<>>]

\* A process that printed a payload and then exited with a non-zero code.
FailedWithOutput == [status |-> 1, text |-> <<Json(IssuesPayload(<<GoodIssue>>))>>]

\* Answers to a stage-1, stage-2 or dedupe prompt.
IssueResponses ==
  { Failed,
    FailedWithOutput,
    Ok(<<>>),
    Ok(<<Prose>>),
    Ok(<<Json(TopLevel("list"))>>),
    Ok(<<Json(TopLevel("null"))>>),
    Ok(<<Json(IssuesPayload(<<>>))>>),
    Ok(<<Json(Payload(List(<<>>), NoList, NoList, Lst(1)))>>),
    Ok(<<Json(Payload(List(<<GoodIssue>>), NoList, NoList, Str(" risk ")))>>),
    Ok(<<Prose, Json(Payload(NoList, List(<<BareIssue>>), NoList, Absent)), Prose>>),
    Ok(<<Json(IssuesPayload(<<EmptyIssue, GoodIssue>>))>>),
    Ok(<<Json(IssuesPayload(<<GoodIssue, BareIssue>>))>>),
    Ok(<<Json(IssuesPayload(<<NonObj("str"), GoodIssue>>))>>),
    Ok(<<Json(IssuesPayload(<<NumSeverityIssue, GoodIssue>>))>>),
    Ok(<<Json(IssuesPayload(<<InfLineIssue, GoodIssue>>))>>),
    Ok(<<Json(Payload(List(<<GoodIssue>>), NoList, NoList, Lst(1)))>>),
    Ok(<<Json(Payload(Scalar("num"), NoList, NoList, Absent))>>) }

\* Entries the reasoning engine puts into a validated list.
GoodVerdict ==
  Obj([NoFields EXCEPT !.path = Str("a.py"), !.line = Num(12), !.verdict = Str("VALID"),
                       !.severity = Str("HIGH"), !.recommendation = Str("fix"),
                       !.justification = Str("why")])
VerdictEntries ==
  { GoodVerdict,
    Obj([GoodVerdict.f EXCEPT !.verdict = Str("partial"), !.severity = Absent]),
    Obj([GoodVerdict.f EXCEPT !.verdict = Str("SPEC-AMBIGUOUS"), !.line = Str("12")]),
    Obj([GoodVerdict.f EXCEPT !.verdict = Str("INVALID")]),
    Obj([GoodVerdict.f EXCEPT !.verdict = Absent]),
    Obj([GoodVerdict.f EXCEPT !.path = Str("")]),
    Obj([GoodVerdict.f EXCEPT !.path = Absent]),
    Obj([GoodVerdict.f EXCEPT !.line = Num(0)]),
    Obj([GoodVerdict.f EXCEPT !.line = Num(0 - 1)]),
    Obj([GoodVerdict.f EXCEPT !.line = Absent, !.line_number = Num(7)]),
    Obj([GoodVerdict.f EXCEPT !.line = Str("x")]),
    Obj([GoodVerdict.f EXCEPT !.line = Frac(0)]),
    Obj([GoodVerdict.f EXCEPT !.line = Inf]),
    Obj([GoodVerdict.f EXCEPT !.severity = Null]),
    Obj([GoodVerdict.f EXCEPT !.verdict = Num(1)]),
    Obj([GoodVerdict.f EXCEPT !.recommendation = Num(5)]),
    NonObj("str") }

\* The entries that also come in front of a well-formed entry.
PairedEntries ==
  { GoodVerdict,
    Obj([GoodVerdict.f EXCEPT !.verdict = Str("INVALID")]),
    Obj([GoodVerdict.f EXCEPT !.line = Num(0)]),
    Obj([GoodVerdict.f EXCEPT !.line = Inf]),
    Obj([GoodVerdict.f EXCEPT !.severity = Null]),
    NonObj("str") }

ValidatedPayload(items) == Payload(NoList, NoList, List(items), Absent)

\* Answers to the validation prompt.
ValidateResponses ==
  { Failed, [status |-> 1, text |-> <<Json(ValidatedPayload(<<GoodVerdict>>))>>],
    Ok(<<Prose>>), Ok(<<Json(TopLevel("list"))>>),
    Ok(<<Json(ValidatedPayload(<<>>))>>),
    Ok(<<Prose, Json(ValidatedPayload(<<GoodVerdict>>))>>) }
  \cup {Ok(<<Json(ValidatedPayload(<<e>>))>>) : e \in VerdictEntries}
  \cup {Ok(<<Json(ValidatedPayload(<<e, GoodVerdict>>))>>) : e \in PairedEntries}

(***************************************************************************)
(* State of one invocation of main().                                       *)
(***************************************************************************)
VARIABLES
  pc,                \* the stage main() is in
  status,            \* "running", "done" (main returned), "failed" (an exception left main)
  error,             \* the exception that left main, "none" otherwise
  diff_text,         \* content of the diff file
  readable,          \* whether DIFF_FILE_PATH can be read
  chunks,            \* parse_diff's mapping
  diff_paths,        \* keys of write_diff_chunks' mapping = files written to diff_tmp
  idx,               \* position of stage_one's loop in diff_paths
  stage1_issues, stage1_summaries,
  stage2_issues, stage2_summaries,
  merged_issues,
  validated,
  comments,
  calls,             \* the reasoning-engine calls issued so far, in order
  last,              \* answer to the latest call and the number of findings it yielded
  reviews,           \* the create_review calls issued so far
  input,             \* argument of a function applied on its own (unit specifications)
  output             \* <<result>> once that function has been applied

vars == <<pc, status, error, diff_text, readable, chunks, diff_paths, idx,
          stage1_issues, stage1_summaries, stage2_issues, stage2_summaries,
          merged_issues, validated, comments, calls, last, reviews, input, output>>

Stages == <<"SPLIT", "STORE", "STAGE1", "STAGE2", "DEDUPE", "VALIDATE", "COMMENTS", "PUBLISH">>

Rank(stage) == CHOOSE i \in 1..Len(Stages) : Stages[i] = stage

\* Faulty orders of the stages: the cross-file stage left out, and the
\* cross-file stage run after the deduplication.
NextStageNoCross(stage) ==
  IF stage = "STAGE1" THEN "DEDUPE" ELSE Stages[Rank(stage) + 1]
NextStageSwapped(stage) ==
  CASE stage = "STAGE1" -> "DEDUPE"
    [] stage = "DEDUPE" -> "STAGE2"
    [] stage = "STAGE2" -> "VALIDATE"
    [] OTHER -> Stages[Rank(stage) + 1]

\* The order in which main() runs the stages (lines 351-379).
NextStage(stage) == Stages[Rank(stage) + 1]

\* run_codex without the test of the return code.
run_codexIgnoresStatus(resp) == [exc |-> "none", text |-> resp.text]

\* run_codex: the stripped stdout, or RuntimeError on a non-zero exit code.
run_codex(resp) ==
  IF resp.status /= 0 THEN [exc |-> "RuntimeError", text |-> <<>>]
  ELSE [exc |-> "none", text |-> resp.text]

\* run_codex_json: nothing is caught, the payload is whatever was parsed.
run_codex_json(resp) ==
  LET out == run_codex(resp)
  IN IF out.exc /= "none" THEN [exc |-> out.exc, data |-> EmptyObj]
     ELSE [exc |-> "none", data |-> load_json_block(out.text)]

\* A call followed by normalize_issues, as stage_one, stage_two and
\* stage_dedupe do.
CallAndNormalize(resp, default_path, stage) ==
  LET r == run_codex_json(resp)
  IN IF r.exc /= "none" THEN [exc |-> r.exc, issues |-> <<>>, summary |-> ""]
     ELSE normalize_issues(r.data, default_path, stage)

\* The call of stage_three_validate followed by its loop.
CallAndValidate(resp) ==
  LET r == run_codex_json(resp)
  IN IF r.exc /= "none" THEN [exc |-> r.exc, validated |-> <<>>]
     ELSE validate_payload(r.data)

Call(stage, path) == [stage |-> stage, path |-> path]
Seen(resp, n) == [status |-> resp.status, text |-> resp.text, yield |-> n]
Summary(who, text) == [who |-> who, text |-> text, n |-> 0]

\* stage_dedupe and stage_three_validate without their early return.
DedupeNeverSkips(issues) == FALSE
ValidateNeverSkips(combined_issues) == FALSE

\* `if not issues: return []` of stage_dedupe.
DedupeSkips(issues) == issues = <<>>

\* `if not combined_issues: return []` of stage_three_validate.
ValidateSkips(combined_issues) == combined_issues = <<>>

Init ==
  /\ pc = "SPLIT"
  /\ status = "running"
  /\ error = "none"
  /\ diff_text \in Diffs
  /\ readable \in BOOLEAN
  /\ chunks = <<>>
  /\ diff_paths = <<>>
  /\ idx = 1
  /\ stage1_issues = <<>>
  /\ stage1_summaries = <<>>
  /\ stage2_issues = <<>>
  /\ stage2_summaries = <<>>
  /\ merged_issues = <<>>
  /\ validated = <<>>
  /\ comments = <<>>
  /\ calls = <<>>
  /\ last = Seen(Ok(<<>>), 0)
  /\ reviews = <<>>
  /\ input = <<>>
  /\ output = <<>>

Running(stage) == pc = stage /\ status = "running"

\* An unreadable diff file taken as "nothing to do": main returns quietly,
\* as the check commented out at lines 344-346 would.
ReadFailsQuietly ==
  /\ Running("SPLIT")
  /\ ~readable
  /\ status' = "done"
  /\ UNCHANGED <<pc, error, diff_text, readable, chunks, diff_paths, idx, stage1_issues,
                 stage1_summaries, stage2_issues, stage2_summaries, merged_issues,
                 validated, comments, calls, last, reviews, input, output>>

\* main, line 351: the diff file cannot be read.
ReadFails ==
  /\ Running("SPLIT")
  /\ ~readable
  /\ status' = "failed"
  /\ error' = "OSError"
  /\ UNCHANGED <<pc, diff_text, readable, chunks, diff_paths, idx, stage1_issues,
                 stage1_summaries, stage2_issues, stage2_summaries, merged_issues,
                 validated, comments, calls, last, reviews>>
  /\ UNCHANGED <<input, output>>

\* main, lines 351-356: read and split; return when there is no chunk.
Split ==
  /\ Running("SPLIT")
  /\ readable
  /\ chunks' = parse_diff(diff_text)
  /\ IF chunks' = <<>>
     THEN status' = "done" /\ pc' = pc
     ELSE status' = status /\ pc' = NextStage(pc)
  /\ UNCHANGED <<error, diff_text, readable, diff_paths, idx, stage1_issues,
                 stage1_summaries, stage2_issues, stage2_summaries, merged_issues,
                 validated, comments, calls, last, reviews>>
  /\ UNCHANGED <<input, output>>

\* write_diff_chunks: every chunk is written.
Store ==
  /\ Running("STORE")
  /\ diff_paths' = DictKeys(chunks)
  /\ pc' = NextStage(pc)
  /\ idx' = 1
  /\ UNCHANGED <<status, error, diff_text, readable, chunks, stage1_issues,
                 stage1_summaries, stage2_issues, stage2_summaries, merged_issues,
                 validated, comments, calls, last, reviews>>
  /\ UNCHANGED <<input, output>>

\* A failed write that is skipped over: the run goes on with the chunks
\* written before it.
StoreFailsRecovers ==
  /\ Running("STORE")
  /\ \E k \in 0..(Len(chunks) - 1) : diff_paths' = SubSeq(DictKeys(chunks), 1, k)
  /\ pc' = NextStage(pc)
  /\ idx' = 1
  /\ UNCHANGED <<status, error, diff_text, readable, chunks, stage1_issues,
                 stage1_summaries, stage2_issues, stage2_summaries, merged_issues,
                 validated, comments, calls, last, reviews>>
  /\ UNCHANGED <<input, output>>

\* write_diff_chunks: mkdir or write_text raises after k chunks were written.
StoreFails ==
  /\ Running("STORE")
  /\ \E k \in 0..(Len(chunks) - 1) : diff_paths' = SubSeq(DictKeys(chunks), 1, k)
  /\ status' = "failed"
  /\ error' = "OSError"
  /\ UNCHANGED <<pc, diff_text, readable, chunks, idx, stage1_issues,
                 stage1_summaries, stage2_issues, stage2_summaries, merged_issues,
                 validated, comments, calls, last, reviews>>
  /\ UNCHANGED <<input, output>>

\* stage_one, lines 234-236: a chunk with a skipped extension.
Stage1Skip ==
  /\ Running("STAGE1")
  /\ idx <= Len(diff_paths)
  /\ Skipped(diff_paths[idx])
  /\ idx' = idx + 1
  /\ UNCHANGED <<pc, status, error, diff_text, readable, chunks, diff_paths,
                 stage1_issues, stage1_summaries, stage2_issues, stage2_summaries,
                 merged_issues, validated, comments, calls, last, reviews>>
  /\ UNCHANGED <<input, output>>

\* stage_one, lines 237-242: the call for one chunk and its normalisation.
Stage1Call ==
  /\ Running("STAGE1")
  /\ idx <= Len(diff_paths)
  /\ ~Skipped(diff_paths[idx])
  /\ \E resp \in IssueResponses :
       LET path == diff_paths[idx]
           r == CallAndNormalize(resp, path, "stage1")
       IN /\ calls' = Append(calls, Call("stage1", path))
          /\ last' = Seen(resp, Len(r.issues))
          /\ IF r.exc /= "none"
             THEN /\ status' = "failed"
                  /\ error' = r.exc
                  /\ UNCHANGED <<idx, stage1_issues, stage1_summaries>>
             ELSE /\ stage1_issues' = stage1_issues \o r.issues
                  /\ stage1_summaries' =
                       IF r.summary /= "" THEN Append(stage1_summaries, Summary(path, r.summary))
                       ELSE stage1_summaries
                  /\ idx' = idx + 1
                  /\ UNCHANGED <<status, error>>
  /\ UNCHANGED <<pc, diff_text, readable, chunks, diff_paths, stage2_issues,
                 stage2_summaries, merged_issues, validated, comments, reviews>>
  /\ UNCHANGED <<input, output>>

\* stage_one, line 244: the loop is over.
Stage1Return ==
  /\ Running("STAGE1")
  /\ idx > Len(diff_paths)
  /\ pc' = NextStage(pc)
  /\ UNCHANGED <<status, error, diff_text, readable, chunks, diff_paths, idx,
                 stage1_issues, stage1_summaries, stage2_issues, stage2_summaries,
                 merged_issues, validated, comments, calls, last, reviews>>
  /\ UNCHANGED <<input, output>>

\* stage_two: one call over all chunks.
Stage2Call ==
  /\ Running("STAGE2")
  /\ \E resp \in IssueResponses :
       LET r == CallAndNormalize(resp, "", "stage2")
       IN /\ calls' = Append(calls, Call("stage2", ""))
          /\ last' = Seen(resp, Len(r.issues))
          /\ IF r.exc /= "none"
             THEN /\ status' = "failed"
                  /\ error' = r.exc
                  /\ UNCHANGED <<pc, stage2_issues, stage2_summaries>>
             ELSE /\ stage2_issues' = r.issues
                  /\ stage2_summaries' =
                       IF r.summary /= "" THEN <<Summary("cross-file", r.summary)>> ELSE <<>>
                  /\ pc' = NextStage(pc)
                  /\ UNCHANGED <<status, error>>
  /\ UNCHANGED <<diff_text, readable, chunks, diff_paths, idx, stage1_issues,
                 stage1_summaries, merged_issues, validated, comments, reviews>>
  /\ UNCHANGED <<input, output>>

\* stage_dedupe, lines 256-257: nothing to deduplicate, no call.
DedupeSkip ==
  /\ Running("DEDUPE")
  /\ DedupeSkips(stage1_issues \o stage2_issues)
  /\ merged_issues' = <<>>
  /\ pc' = NextStage(pc)
  /\ UNCHANGED <<status, error, diff_text, readable, chunks, diff_paths, idx,
                 stage1_issues, stage1_summaries, stage2_issues, stage2_summaries,
                 validated, comments, calls, last, reviews>>
  /\ UNCHANGED <<input, output>>

\* stage_dedupe falling back on the findings it was given when the answer
\* normalizes to nothing.
DedupeCallKeepsFindings ==
  /\ Running("DEDUPE")
  /\ ~DedupeSkips(stage1_issues \o stage2_issues)
  /\ \E resp \in IssueResponses :
       LET r == CallAndNormalize(resp, "", "dedupe")
       IN /\ calls' = Append(calls, Call("dedupe", ""))
          /\ last' = Seen(resp, Len(r.issues))
          /\ IF r.exc /= "none"
             THEN /\ status' = "failed"
                  /\ error' = r.exc
                  /\ UNCHANGED <<pc, merged_issues>>
             ELSE /\ merged_issues' =
                       IF r.issues = <<>> THEN stage1_issues \o stage2_issues ELSE r.issues
                  /\ pc' = NextStage(pc)
                  /\ UNCHANGED <<status, error>>
  /\ UNCHANGED <<diff_text, readable, chunks, diff_paths, idx, stage1_issues,
                 stage1_summaries, stage2_issues, stage2_summaries, validated,
                 comments, reviews>>
  /\ UNCHANGED <<input, output>>

\* stage_dedupe, lines 258-261.
DedupeCall ==
  /\ Running("DEDUPE")
  /\ ~DedupeSkips(stage1_issues \o stage2_issues)
  /\ \E resp \in IssueResponses :
       LET r == CallAndNormalize(resp, "", "dedupe")
       IN /\ calls' = Append(calls, Call("dedupe", ""))
          /\ last' = Seen(resp, Len(r.issues))
          /\ IF r.exc /= "none"
             THEN /\ status' = "failed"
                  /\ error' = r.exc
                  /\ UNCHANGED <<pc, merged_issues>>
             ELSE /\ merged_issues' = r.issues
                  /\ pc' = NextStage(pc)
                  /\ UNCHANGED <<status, error>>
  /\ UNCHANGED <<diff_text, readable, chunks, diff_paths, idx, stage1_issues,
                 stage1_summaries, stage2_issues, stage2_summaries, validated,
                 comments, reviews>>
  /\ UNCHANGED <<input, output>>

\* stage_three_validate, lines 269-270: nothing to validate, no call.
ValidateSkip ==
  /\ Running("VALIDATE")
  /\ ValidateSkips(merged_issues)
  /\ validated' = <<>>
  /\ pc' = NextStage(pc)
  /\ UNCHANGED <<status, error, diff_text, readable, chunks, diff_paths, idx,
                 stage1_issues, stage1_summaries, stage2_issues, stage2_summaries,
                 merged_issues, comments, calls, last, reviews>>
  /\ UNCHANGED <<input, output>>

\* stage_three_validate, lines 272-307.
ValidateCall ==
  /\ Running("VALIDATE")
  /\ ~ValidateSkips(merged_issues)
  /\ \E resp \in ValidateResponses :
       LET r == CallAndValidate(resp)
       IN /\ calls' = Append(calls, Call("validate", ""))
          /\ last' = Seen(resp, Len(r.validated))
          /\ IF r.exc /= "none"
             THEN /\ status' = "failed"
                  /\ error' = r.exc
                  /\ UNCHANGED <<pc, validated>>
             ELSE /\ validated' = r.validated
                  /\ pc' = NextStage(pc)
                  /\ UNCHANGED <<status, error>>
  /\ UNCHANGED <<diff_text, readable, chunks, diff_paths, idx, stage1_issues,
                 stage1_summaries, stage2_issues, stage2_summaries, merged_issues,
                 comments, reviews>>
  /\ UNCHANGED <<input, output>>

\* main, line 364.
Comments ==
  /\ Running("COMMENTS")
  /\ LET r == build_comments(validated)
     IN IF r.exc /= "none"
        THEN /\ status' = "failed"
             /\ error' = r.exc
             /\ UNCHANGED <<pc, comments>>
        ELSE /\ comments' = r.comments
             /\ pc' = NextStage(pc)
             /\ UNCHANGED <<status, error>>
  /\ UNCHANGED <<diff_text, readable, chunks, diff_paths, idx,
                 stage1_issues, stage1_summaries, stage2_issues, stage2_summaries,
                 merged_issues, validated, calls, last, reviews>>
  /\ UNCHANGED <<input, output>>

\* main, lines 366-370: the lines of the review body.
ReviewSummaries ==
  stage1_summaries \o stage2_summaries
  \o << IF validated /= <<>>
        THEN [who |-> "Validated findings", text |-> "", n |-> Len(validated)]
        ELSE [who |-> "No validated issues found.", text |-> "", n |-> 0] >>

\* create_review always given the comments argument.
ReviewAlwaysInline ==
  [body |-> ReviewSummaries, event |-> "COMMENT", inline |-> TRUE, comments |-> comments]

\* main, lines 376-379: the create_review call; inline tells whether the
\* comments argument is passed.
Review ==
  [body |-> ReviewSummaries, event |-> "COMMENT",
   inline |-> comments /= <<>>, comments |-> comments]

\* main, lines 372-381: the review is created.
Publish ==
  /\ Running("PUBLISH")
  /\ reviews' = Append(reviews, Review)
  /\ status' = "done"
  /\ UNCHANGED <<pc, error, diff_text, readable, chunks, diff_paths, idx,
                 stage1_issues, stage1_summaries, stage2_issues, stage2_summaries,
                 merged_issues, validated, comments, calls, last>>
  /\ UNCHANGED <<input, output>>

\* main, lines 372-379: the hosting API raises, before create_review is
\* reached (get_repo, get_pull) or in create_review itself.
PublishFails ==
  /\ Running("PUBLISH")
  /\ \E reached \in BOOLEAN :
       reviews' = IF reached THEN Append(reviews, Review) ELSE reviews
  /\ status' = "failed"
  /\ error' = "GithubException"
  /\ UNCHANGED <<pc, diff_text, readable, chunks, diff_paths, idx,
                 stage1_issues, stage1_summaries, stage2_issues, stage2_summaries,
                 merged_issues, validated, comments, calls, last>>
  /\ UNCHANGED <<input, output>>

Next ==
  \/ ReadFails
  \/ Split
  \/ Store
  \/ StoreFails
  \/ Stage1Skip
  \/ Stage1Call
  \/ Stage1Return
  \/ Stage2Call
  \/ DedupeSkip
  \/ DedupeCall
  \/ ValidateSkip
  \/ ValidateCall
  \/ Comments
  \/ Publish
  \/ PublishFails

Spec == Init /\ [][Next]_vars

(***************************************************************************)
(* Properties.                                                              *)
(***************************************************************************)
EngineStages == {"STAGE1", "STAGE2", "DEDUPE", "VALIDATE"}

StageCalls(stage) == Cardinality({i \in 1..Len(calls) : calls[i].stage = stage})

\* The stage raised: main() was left while pc was at that stage.
Crashed(stage) == pc = stage /\ status = "failed"

\* The stage has run, to its end or to an exception.
Over(stage) == Rank(pc) > Rank(stage) \/ Crashed(stage)

\* An exception left main() from one of the reasoning-engine stages.
EngineStageFailure == status = "failed" /\ pc \in EngineStages

\* The latest call returned with exit status 0.
Answered == calls /= <<>> /\ last.status = 0
LastStage == calls[Len(calls)].stage

\* The criterion of the specification for a validation entry.
LineValue(e) ==
  LET r == PyInt(PyOr(PyOr(Get(e, "line"), Get(e, "line_number")), Num(0)))
  IN IF r.exc = "none" THEN r.n ELSE 0
Criteria(entry) ==
  /\ entry.k = "obj"
  /\ LET v == PyOr(Get(entry.f, "verdict"), Str(""))
     IN v.t = "str" /\ Upper(v.s) \in Verdicts
  /\ Truthy(PyOr(Get(entry.f, "path"), Str("")))
  /\ LineValue(entry.f) > 0

Anchor(path, line) == [path |-> path, line |-> line]
EntryAnchors(entries) ==
  [i \in 1..Len(entries) |-> Anchor(Get(entries[i].f, "path"), LineValue(entries[i].f))]
FindingAnchors(fs) == [i \in 1..Len(fs) |-> Anchor(fs[i].path, fs[i].line)]

\* C1: in stage_three_validate an entry of the validation response becomes a
\* ValidatedFinding if and only if its upper-cased verdict is VALID,
\* SPEC-AMBIGUOUS or PARTIAL, its path is non-empty and its line is > 0; and
\* every ValidatedFinding has a non-empty path and a line > 0.
C1_ValidatedIffCriteria ==
  /\ \A i \in 1..Len(validated) : Truthy(validated[i].path) /\ validated[i].line > 0
  /\ (Answered /\ LastStage = "validate")
       => LET data == load_json_block(last.text)
              entries == ValidatedEntries(data)
          IN (data.k = "obj" /\ entries.t = "list")
               => FindingAnchors(validated) = EntryAnchors(SelectSeq(entries.items, Criteria))

\* C2: a reasoning-engine call that exits with a non-zero status makes its
\* unit contribute nothing and the run goes on: no run fails in STAGE1,
\* STAGE2, DEDUPE or VALIDATE because of it.
C2_EngineFailureDegrades ==
  (calls /= <<>> /\ last.status /= 0) => (~EngineStageFailure /\ last.yield = 0)

\* The text holds a JSON object somewhere.
ContainsObject(text) == \E i \in 1..Len(text) : text[i].g = "json" /\ text[i].val.k = "obj"

\* C3: a call that succeeds with a text from which no JSON object can be
\* parsed yields zero findings for its unit and the run goes on.
C3_UnparsableYieldsNothing ==
  (Answered /\ ~ContainsObject(last.text)) => (~EngineStageFailure /\ last.yield = 0)

\* Well-typed entries and payloads: strings where the code expects strings,
\* numbers or numeric strings where it expects a line.
TextTyped(v) == v.t \in {"absent", "str"}
LineTyped(v) == v.t \in {"absent", "num"} \/ (v.t = "str" /\ ParseInt(v.s).exc = "none")
WellFormedEntry(entry) ==
  /\ entry.k = "obj"
  /\ \A k \in Fields \ {"line", "line_number"} : TextTyped(entry.f[k])
  /\ LineTyped(entry.f.line) /\ LineTyped(entry.f.line_number)
ListTyped(l) == l.t \in {"absent", "list"}
WellFormedPayload(data) ==
  /\ data.k = "obj"
  /\ ListTyped(data.issues) /\ ListTyped(data.reviews) /\ ListTyped(data.validated)
  /\ TextTyped(data.summary)
  /\ \A l \in {data.issues, data.reviews, data.validated} :
       \A i \in 1..Len(l.items) : WellFormedEntry(l.items[i])

\* C4: extracting and normalizing is total: on the empty string, on plain
\* prose, on a bare JSON object and on JSON text whose top-level value is
\* not an object it returns a structure and never raises.
C4_NormalizerTotal ==
  (Answered /\ (\/ last.text = <<>>
                \/ \A i \in 1..Len(last.text) : last.text[i].g = "prose"
                \/ IsJson(last.text) /\ last.text[1].val.k /= "obj"
                \/ IsJson(last.text) /\ WellFormedPayload(last.text[1].val)))
    => ~EngineStageFailure

\* The entries of the answered payload that the stage has to return.
Due(entry) ==
  /\ WellFormedEntry(entry)
  /\ IF LastStage = "validate" THEN Criteria(entry) ELSE Truthy(IssueText(entry.f))
StageEntries(data) ==
  IF LastStage = "validate" THEN ValidatedEntries(data)
  ELSE ListOr(ListOr(data.issues, data.reviews), List(<<>>))

\* C5: for a JSON object whose issues/validated list holds a malformed entry
\* next to well-formed ones, no error is raised and every well-formed entry
\* is still returned.
C5_MalformedEntryTolerated ==
  Answered =>
    LET data == load_json_block(last.text)
        entries == StageEntries(data)
    IN (data.k = "obj" /\ TextTyped(data.summary) /\ entries.t = "list")
         => /\ ~EngineStageFailure
            /\ last.yield >= Len(SelectSeq(entries.items, Due))

NoFindings == stage1_issues \o stage2_issues = <<>>

\* C6: when STAGE1 and STAGE2 together produce no finding, DEDUPE and
\* VALIDATE issue no call, nothing fails between STAGE2 and PUBLISH, every
\* step leads to the next stage, and the review created has no inline comment.
C6_NoFindingsShortCircuit ==
  /\ [](  (Rank(pc) >= Rank("DEDUPE") /\ NoFindings)
          => /\ StageCalls("dedupe") = 0 /\ StageCalls("validate") = 0
             /\ ~(status = "failed" /\ pc \in {"DEDUPE", "VALIDATE", "COMMENTS"})
             /\ comments = <<>>
             /\ \A i \in 1..Len(reviews) : ~reviews[i].inline
             /\ (status = "done" => Len(reviews) = 1))
  /\ [][ (NoFindings /\ pc \in {"DEDUPE", "VALIDATE", "COMMENTS"})
          => (pc' = Stages[Rank(pc) + 1] /\ status' = "running") ]_vars

C6_Witness ==
  /\ status = "done" /\ pc = "PUBLISH" /\ NoFindings
  /\ StageCalls("stage1") > 0 /\ StageCalls("stage2") = 1
  /\ Len(reviews) = 1 /\ ~reviews[1].inline

\* C7: VALIDATE issues no call when the deduped set is empty and exactly one
\* call when it is not, however many findings it holds.
C7_ValidateCallCount ==
  /\ StageCalls("validate") <= 1
  /\ Over("VALIDATE") => StageCalls("validate") = (IF merged_issues = <<>> THEN 0 ELSE 1)
  /\ ~Over("VALIDATE") => StageCalls("validate") = 0

C7_Witness ==
  /\ pc = "COMMENTS" /\ Len(merged_issues) >= 2 /\ StageCalls("validate") = 1

\* The path ends in one of the skip extensions.
EndsWith(cs, ext) == Len(cs) >= Len(ext) /\ SubSeq(cs, Len(cs) - Len(ext) + 1, Len(cs)) = ext
EndsInSkipExtension(path) == \E ext \in SKIP_EXTENSIONS : EndsWith(Chars(path), ext)

\* C8: STAGE1 issues, in split order, exactly one call for each chunk whose
\* path does not end in .md, .txt or .lock and none for the others.
C8_OneCallPerReviewedChunk ==
  Over("STAGE1") =>
    LET reviewed(p) == ~EndsInSkipExtension(p)
        made == SelectSeq(calls, LAMBDA c : c.stage = "stage1")
    IN [i \in 1..Len(made) |-> made[i].path] = SelectSeq(DictKeys(chunks), reviewed)

\* C9: a run that reaches STAGE2 issues exactly one cross-file call there,
\* whatever STAGE1 skipped or found; before STAGE2 there is none.
C9_OneCrossFileCall ==
  /\ Over("STAGE2") => StageCalls("stage2") = 1
  /\ ~Over("STAGE2") => StageCalls("stage2") = 0

C9_Witness ==
  /\ Over("STAGE2")
  /\ \A i \in 1..Len(diff_paths) : Skipped(diff_paths[i])
  /\ StageCalls("stage1") = 0 /\ StageCalls("stage2") = 1

CallRank(stage) ==
  CASE stage = "stage1" -> Rank("STAGE1")
    [] stage = "stage2" -> Rank("STAGE2")
    [] stage = "dedupe" -> Rank("DEDUPE")
    [] stage = "validate" -> Rank("VALIDATE")

\* C10: a run moves through SPLIT, (chunk store,) STAGE1, STAGE2, DEDUPE,
\* VALIDATE, COMMENTS, PUBLISH in this order, one stage at a time and never
\* backward; the calls are issued in the stage they belong to, so in stage
\* order; a review is created at most once and nothing is called after it.
C10_ForwardOrder ==
  /\ [][ /\ (pc' = pc \/ Rank(pc') = Rank(pc) + 1)
         /\ (calls' /= calls =>
               /\ Len(calls') = Len(calls) + 1
               /\ CallRank(calls'[Len(calls')].stage) = Rank(pc))
         /\ (reviews' /= reviews => (reviews = <<>> /\ pc = "PUBLISH" /\ calls' = calls))
         /\ (reviews /= <<>> => (calls' = calls /\ reviews' = reviews)) ]_vars
  /\ [](\A i, j \in 1..Len(calls) : i < j => CallRank(calls[i].stage) <= CallRank(calls[j].stage))
  /\ [](Len(reviews) <= 1)

C10_Witness ==
  /\ status = "done" /\ Len(reviews) = 1
  /\ \A s \in {"stage1", "stage2", "dedupe", "validate"} : StageCalls(s) >= 1

\* C11: when the diff file cannot be read the run aborts with a failure in
\* SPLIT: no reasoning-engine call, no chunk written, no review created.
C11_UnreadableDiffAborts ==
  ~readable =>
    /\ pc = "SPLIT" /\ status \in {"running", "failed"}
    /\ (status = "failed" => error = "OSError")
    /\ chunks = <<>> /\ diff_paths = <<>> /\ calls = <<>> /\ reviews = <<>>

C11_Witness == ~readable /\ status = "failed" /\ diff_text /= <<>>

HasHeader(text) == \E i \in 1..Len(text) : text[i].hdr

\* C12: for a diff without any header line parse_diff returns the empty
\* mapping and main returns normally from SPLIT with nothing to review: no
\* exception, no reasoning-engine call, no review.
C12_NoHeaderNothingToReview ==
  (readable /\ ~HasHeader(diff_text)) =>
    /\ pc = "SPLIT" /\ status \in {"running", "done"} /\ error = "none"
    /\ chunks = <<>> /\ diff_paths = <<>> /\ calls = <<>> /\ reviews = <<>>

C12_Witness == readable /\ diff_text /= <<>> /\ ~HasHeader(diff_text) /\ status = "done"

\* C13: a run creates at most one review, in PUBLISH; the review has event
\* COMMENT and carries all the comments, and it is summary-only exactly when
\* there is no comment; a run that ends normally in PUBLISH has created it,
\* and only the hosting API can make the run fail there.
C13_OneReview ==
  /\ Len(reviews) <= 1
  /\ pc /= "PUBLISH" => reviews = <<>>
  /\ \A i \in 1..Len(reviews) :
       /\ reviews[i].event = "COMMENT"
       /\ reviews[i].comments = comments
       /\ reviews[i].inline = (comments /= <<>>)
  /\ (pc = "PUBLISH" /\ status = "done") => Len(reviews) = 1
  /\ (pc = "PUBLISH" /\ status = "failed") => error = "GithubException"

C13_Witness ==
  /\ pc = "PUBLISH" /\ status = "done" /\ comments = <<>>
  /\ StageCalls("validate") = 1 /\ Len(reviews) = 1 /\ ~reviews[1].inline

\* The findings and comments main() holds.
Derived == <<stage1_issues, stage1_summaries, stage2_issues, stage2_summaries,
             merged_issues, validated, comments>>

\* C21: the output of a call that ended with a non-zero status is never
\* parsed or normalized: the call raises RuntimeError out of main, its unit
\* yields nothing and no finding, summary or comment changes in that step.
C21_FailedCallNeverNormalized ==
  /\ []((calls /= <<>> /\ last.status /= 0)
          => (last.yield = 0 /\ status = "failed" /\ error = "RuntimeError"
              /\ pc = Stages[CallRank(LastStage)]))
  /\ [][(calls' /= calls /\ last'.status /= 0) => UNCHANGED Derived]_vars

C21_Witness ==
  /\ calls /= <<>> /\ last.status /= 0 /\ last.text /= <<>>
  /\ LastStage = "validate" /\ merged_issues /= <<>> /\ validated = <<>>

\* C22: when a chunk cannot be written the run fails in the chunk store:
\* no reasoning-engine call, no review, and no stage runs on the chunks that
\* were written.  When every write succeeds the returned mapping has the
\* keys of parse_diff's mapping, in the same order.
C22_StoreFailureIsFatal ==
  /\ [](Crashed("STORE") => (error = "OSError" /\ calls = <<>> /\ reviews = <<>>))
  /\ [](Rank(pc) > Rank("STORE") => diff_paths = DictKeys(chunks))
  /\ [][(pc = "STORE" /\ diff_paths' /= DictKeys(chunks))
          => (pc' = "STORE" /\ status' = "failed")]_vars
  /\ [][Crashed("STORE") => UNCHANGED vars]_vars

C22_Witness ==
  /\ Crashed("STORE") /\ Len(chunks) = 2 /\ Len(diff_paths) = 1 /\ calls = <<>>

\* C25: every ValidatedFinding has the path and line of a finding of the
\* deduped set given to VALIDATE, so there are never more ValidatedFindings,
\* nor more comments, than deduped findings.
C25_ValidatedFromDeduped ==
  /\ \A i \in 1..Len(validated) :
       \E j \in 1..Len(merged_issues) :
         /\ merged_issues[j].path = validated[i].path
         /\ merged_issues[j].line = validated[i].line
  /\ Len(validated) <= Len(merged_issues)
  /\ Len(comments) <= Len(merged_issues)

\* The text is not JSON and holds no JSON object either.
Unparsable(text) == ~IsJson(text) /\ ~ContainsObject(text)

\* The text is a JSON object whose issues list is empty (and that has no
\* reviews list to fall back on).
EmptyIssuesList(text) ==
  /\ IsJson(text) /\ text[1].val.k = "obj"
  /\ text[1].val.issues = List(<<>>) /\ ~ListTruthy(text[1].val.reviews)

\* The latest call was the DEDUPE call, so VALIDATE has issued none, and it
\* returned with exit status 0.
DedupeAnswered == Answered /\ LastStage = "dedupe"

\* C26: the deduped set is what the DEDUPE answer normalizes to, never the
\* stage-1/stage-2 findings.  When these are not empty and the DEDUPE call
\* returns unparsable text or an empty issues list, the deduped set is
\* empty, VALIDATE issues no call, no comment is built and a review that is
\* created is summary-only; with a summary that is a string or missing
\* nothing fails between DEDUPE and PUBLISH.
C26_DedupeAnswerIsTheDedupedSet ==
  /\ (DedupeAnswered /\ Rank(pc) > Rank("DEDUPE"))
       => merged_issues = normalize_issues(load_json_block(last.text), "", "dedupe").issues
  /\ (DedupeAnswered /\ ~NoFindings /\ (Unparsable(last.text) \/ EmptyIssuesList(last.text)))
       => /\ merged_issues = <<>> /\ validated = <<>> /\ comments = <<>>
          /\ StageCalls("validate") = 0
          /\ \A i \in 1..Len(reviews) : ~reviews[i].inline
          /\ (status = "done" => Len(reviews) = 1)
          /\ (Unparsable(last.text) \/ TextTyped(last.text[1].val.summary))
               => ~(status = "failed" /\ pc \in {"DEDUPE", "VALIDATE", "COMMENTS"})

C26_Witness ==
  /\ status = "done" /\ pc = "PUBLISH" /\ Len(stage1_issues \o stage2_issues) >= 2
  /\ DedupeAnswered /\ last.text = <<Prose>>
  /\ merged_issues = <<>> /\ Len(reviews) = 1 /\ ~reviews[1].inline

(***************************************************************************)
(* Unit specifications: one function applied to an argument drawn from a    *)
(* bounded set, while main() is not running.                                *)
(***************************************************************************)
Idle ==
  /\ pc = "SPLIT"
  /\ status = "running"
  /\ error = "none"
  /\ diff_text = <<>>
  /\ readable = TRUE
  /\ chunks = <<>>
  /\ diff_paths = <<>>
  /\ idx = 1
  /\ stage1_issues = <<>>
  /\ stage1_summaries = <<>>
  /\ stage2_issues = <<>>
  /\ stage2_summaries = <<>>
  /\ merged_issues = <<>>
  /\ validated = <<>>
  /\ comments = <<>>
  /\ calls = <<>>
  /\ last = Seen(Ok(<<>>), 0)
  /\ reviews = <<>>

pipeline == <<pc, status, error, diff_text, readable, chunks, diff_paths, idx,
              stage1_issues, stage1_summaries, stage2_issues, stage2_summaries,
              merged_issues, validated, comments, calls, last, reviews>>

Applied == output /= <<>>

\* Largest number of lines of a diff text given to parse_diff.
MaxDiffLines == 4

DiffLines == {Header("a.py"), Header("b.py"), Line("+"), Line("-")}
DiffTexts == SeqsUpTo(DiffLines, MaxDiffLines)

InitParse == Idle /\ input \in DiffTexts /\ output = <<>>

ApplyParseDiff ==
  /\ ~Applied
  /\ output' = <<parse_diff(input)>>
  /\ UNCHANGED <<pipeline, input>>

SpecParse == InitParse /\ [][ApplyParseDiff]_vars

RECURSIVE Flatten(_)
Flatten(ss) == IF ss = <<>> THEN <<>> ELSE Head(ss) \o Flatten(Tail(ss))

HeaderPaths(text) ==
  LET hs == SelectSeq(text, LAMBDA l : l.hdr)
  IN [i \in 1..Len(hs) |-> hs[i].path]

Distinct(q) == \A i, j \in 1..Len(q) : i /= j => q[i] /= q[j]

\* C14: for a diff that starts with a header and whose headers name pairwise
\* distinct paths, parse_diff returns one chunk per header, keyed by the
\* header's path in header order; each chunk starts with its header and holds
\* no other header, and the chunks concatenated are the diff, line for line.
C14_ChunksPartitionDiff ==
  (Applied /\ input /= <<>> /\ input[1].hdr /\ Distinct(HeaderPaths(input))) =>
    LET d == output[1]
    IN /\ DictKeys(d) = HeaderPaths(input)
       /\ Flatten([i \in 1..Len(d) |-> d[i].content]) = input
       /\ \A i \in 1..Len(d) :
            /\ d[i].content[1] = Header(d[i].path)
            /\ \A k \in 2..Len(d[i].content) : ~d[i].content[k].hdr

C14_Witness ==
  /\ Applied /\ Len(input) = 4 /\ input[1].hdr /\ Distinct(HeaderPaths(input))
  /\ Len(output[1]) = 2 /\ ~input[2].hdr /\ ~input[4].hdr

\* The path of the section a line belongs to: that of the nearest header at
\* or before it ("" before the first header).
Owner(text, i) ==
  LET hs == {k \in 1..i : text[k].hdr}
  IN IF hs = {} THEN "" ELSE text[SetMax(hs)].path

RECURSIVE LinesOf(_, _, _)
LinesOf(text, p, i) ==
  IF i > Len(text) THEN <<>>
  ELSE (IF Owner(text, i) = p THEN <<text[i]>> ELSE <<>>) \o LinesOf(text, p, i + 1)

RECURSIVE FirstAppearances(_, _)
FirstAppearances(q, seen) ==
  IF q = <<>> THEN <<>>
  ELSE IF Head(q) \in seen THEN FirstAppearances(Tail(q), seen)
  ELSE <<Head(q)>> \o FirstAppearances(Tail(q), seen \cup {Head(q)})

\* C15: for any diff the mapping has one key per distinct path, in order of
\* first appearance, and the chunk of a path holds all lines of all sections
\* of that path, in original order.
C15_ChunkHoldsAllSections ==
  Applied =>
    LET d == output[1]
    IN /\ DictKeys(d) = FirstAppearances(HeaderPaths(input), {})
       /\ \A i \in 1..Len(d) : d[i].content = LinesOf(input, d[i].path, 1)

\* Position of the first header line, Len + 1 when there is none.
FirstHeader(text) == SetMin({i \in 1..Len(text) : text[i].hdr} \cup {Len(text) + 1})

\* Last line of the section whose header is at position a.
SectionEnd(text, a) ==
  SetMin({k \in (a + 1)..Len(text) : text[k].hdr} \cup {Len(text) + 1}) - 1

\* C23: the lines in front of the first header line are in no chunk: every
\* chunk is one section of the diff, from a header line to the line before
\* the next header, so the chunks hold no more lines than the diff has from
\* its first header on, and a text without header gives no chunk at all.
C23_PreludeDiscarded ==
  Applied =>
    LET d == output[1]
        p == FirstHeader(input)
    IN /\ \A i \in 1..Len(d) :
            \E a \in p..Len(input) :
              /\ input[a] = Header(d[i].path)
              /\ d[i].content = SubSeq(input, a, SectionEnd(input, a))
       /\ Len(Flatten([i \in 1..Len(d) |-> d[i].content])) <= Len(input) - (p - 1)
       /\ p > Len(input) => d = <<>>

C23_Witness ==
  /\ Applied /\ Len(input) = 4 /\ FirstHeader(input) = 3 /\ ~input[4].hdr
  /\ Len(output[1]) = 1 /\ output[1][1].content = SubSeq(input, 3, 4)

\* Largest number of segments of a text given to load_json_block.
MaxSegments == 3

Segments ==
  { Prose, LBrace, RBrace,
    Json(IssuesPayload(<<GoodIssue>>)),
    Json(IssuesPayload(<<BareIssue>>)),
    Json(TopLevel("list")) }
Texts == SeqsUpTo(Segments, MaxSegments)

InitJson == Idle /\ input \in Texts /\ output = <<>>

ApplyLoadJsonBlock ==
  /\ ~Applied
  /\ output' = <<load_json_block(input)>>
  /\ UNCHANGED <<pipeline, input>>

SpecJson == InitJson /\ [][ApplyLoadJsonBlock]_vars

\* Position of the first opening brace of the text, 0 when there is none.
FirstOpen(text) ==
  LET opens == {i \in 1..Len(text) : HasOpen(text[i])}
  IN IF opens = {} THEN 0 ELSE SetMin(opens)

\* The first opening brace of the text opens a valid JSON object.
LeadingObject(text) == FirstOpen(text) /= 0 /\ text[FirstOpen(text)].g = "json"

\* C24: for a text that is not valid JSON as a whole load_json_block returns
\* the first brace-balanced substring that parses: when the first opening
\* brace of the text opens a valid JSON object the result is that object,
\* whatever braces or objects follow it; a text without any opening brace
\* gives the empty structure.
C24_FirstBalancedObject ==
  (Applied /\ ~IsJson(input)) =>
    /\ LeadingObject(input) => output[1] = input[FirstOpen(input)].val
    /\ FirstOpen(input) = 0 => output[1] = EmptyObj

\* Largest number of entries of an issues list given to normalize_issues.
MaxEntries == 2

\* Entries that differ in the keys holding the issue text.
TextEntries ==
  { Obj([NoFields EXCEPT !.line = Num(3), !.suggestion = a, !.description = b,
                         !.message = c, !.text = d]) :
      a \in {Absent, Str(""), Str("fix")}, b \in {Absent, Str("desc")},
      c \in {Absent, Str("msg")}, d \in {Absent, Str("txt")} }

\* Entries that differ in the keys holding the line number.
LineEntries ==
  { Obj([NoFields EXCEPT !.suggestion = Str("fix"), !.line = a, !.line_number = b]) :
      a \in {Absent, Num(0), Num(3), Num(0 - 1), Str("12"), Str("x"), Frac(0), NaN, Inf, Lst(1)},
      b \in {Absent, Num(5)} }

IssueLists == SeqsUpTo(TextEntries \cup LineEntries, MaxEntries)

InitNormalize == Idle /\ input \in {IssuesPayload(items) : items \in IssueLists} /\ output = <<>>

ApplyNormalize ==
  /\ ~Applied
  /\ output' = <<normalize_issues(input, "a.py", "stage1")>>
  /\ UNCHANGED <<pipeline, input>>

SpecNormalize == InitNormalize /\ [][ApplyNormalize]_vars

\* The first non-empty value among the keys, "" when there is none.
RECURSIVE FirstNonEmpty(_, _)
FirstNonEmpty(e, keys) ==
  IF keys = <<>> THEN Str("")
  ELSE IF Truthy(e[Head(keys)]) THEN e[Head(keys)]
  ELSE FirstNonEmpty(e, Tail(keys))

TextKeys == <<"suggestion", "description", "message", "text">>
HasIssueText(entry) == \E i \in 1..Len(TextKeys) : Truthy(entry.f[TextKeys[i]])

\* C16: the issue text of a finding is the first non-empty value among
\* suggestion, description, message, text of its entry; entries without any
\* are dropped, the others kept in order; no finding has an empty suggestion.
C16_IssueTextPriority ==
  Applied =>
    LET r == output[1]
        kept == SelectSeq(input.issues.items, HasIssueText)
    IN /\ \A i \in 1..Len(r.issues) : Truthy(r.issues[i].suggestion)
       /\ r.exc = "none" =>
            [i \in 1..Len(r.issues) |-> r.issues[i].suggestion]
              = [i \in 1..Len(kept) |-> FirstNonEmpty(kept[i].f, TextKeys)]

C16_Witness ==
  /\ Applied /\ output[1].exc = "none"
  /\ Len(input.issues.items) = 2 /\ Len(output[1].issues) = 1
  /\ output[1].issues[1].suggestion = Str("txt")
  /\ input.issues.items[1].f.suggestion = Str("")

\* The line the specification asks for: key line when present, else
\* line_number; numbers and numeric strings as integers, all else 0.
SpecLine(e) ==
  LET v == IF e.line.t \notin {"absent", "null"} THEN e.line ELSE e.line_number
  IN CASE v.t \in {"num", "frac"} -> v.n
       [] v.t = "str" -> ParseInt(v.s).n
       [] OTHER -> 0

\* C17: the line of a finding is taken from key line when present, else from
\* line_number; a present 0 stays 0; absent, non-numeric, non-finite and
\* non-scalar values give 0; the coercion never raises.
C17_LineCoercion ==
  Applied =>
    LET r == output[1]
        kept == SelectSeq(input.issues.items, HasIssueText)
    IN /\ r.exc = "none"
       /\ [i \in 1..Len(r.issues) |-> r.issues[i].line]
            = [i \in 1..Len(kept) |-> SpecLine(kept[i].f)]

\* C18: every finding produced by the normalization has a line >= 0.
C18_LineNonNegative ==
  Applied => \A i \in 1..Len(output[1].issues) : output[1].issues[i].line >= 0

\* C19: build_comments cannot fail on a list produced by
\* stage_three_validate and returns one comment per ValidatedFinding, in
\* order, with its path and line and side RIGHT; none merged, none dropped.
C19_OneCommentPerFinding ==
  Over("COMMENTS") =>
    /\ ~Crashed("COMMENTS")
    /\ Len(comments) = Len(validated)
    /\ \A i \in 1..Len(comments) :
         /\ comments[i].path = validated[i].path
         /\ comments[i].line = validated[i].line
         /\ comments[i].side = "RIGHT"

\* Largest number of ValidatedFindings given to build_comments.
MaxItems == 2

\* ValidatedFindings as stage_three_validate builds them.
ValidatedItems ==
  { [path |-> Str("a.py"), line |-> 12, verdict |-> v, severity |-> sev,
     suggestion |-> a, justification |-> b, spec_ref |-> c, source |-> d] :
      v \in {"VALID"}, sev \in {"", "HIGH"}, a \in {Str(""), Str("fix")},
      b \in {Str(""), Str("why")}, c \in {Str(""), Str("EIP-1")},
      d \in {Str(""), Str("stage1")} }
  \cup { [path |-> Str("a.py"), line |-> 7, verdict |-> "PARTIAL", severity |-> "",
          suggestion |-> Num(5), justification |-> Str(""), spec_ref |-> Str(""),
          source |-> Str("")] }

InitComments == Idle /\ input \in SeqsUpTo(ValidatedItems, MaxItems) /\ output = <<>>

ApplyBuildComments ==
  /\ ~Applied
  /\ output' = <<build_comments(input)>>
  /\ UNCHANGED <<pipeline, input>>

SpecComments == InitComments /\ [][ApplyBuildComments]_vars

\* The labelled parts of a body in their order, with the field each shows.
PartTags == <<"suggestion", "Reason", "Spec", "Source stage">>
PartField(item, tag) ==
  CASE tag = "suggestion" -> item.suggestion
    [] tag = "Reason" -> item.justification
    [] tag = "Spec" -> item.spec_ref
    [] tag = "Source stage" -> item.source

\* C20: the body of a comment is, in this order, the header with the verdict
\* and the severity tag (none for an empty severity), the suggestion, the
\* justification, the spec reference and the source stage; the header is
\* always there, each other part exactly when its field is non-empty.
C20_BodyOrder ==
  (Applied /\ output[1].exc = "none") =>
    /\ Len(output[1].comments) = Len(input)
    /\ \A i \in 1..Len(input) :
         LET body == output[1].comments[i].body
             item == input[i]
             tags == SelectSeq(PartTags, LAMBDA t : PartField(item, t) /= Str(""))
         IN /\ body[1] = [tag |-> "header", val |-> Str(item.verdict), sev |-> item.severity]
            /\ Len(body) = 1 + Len(tags)
            /\ \A k \in 1..Len(tags) :
                 /\ body[k + 1].tag = tags[k]
                 /\ body[k + 1].val = PartField(item, tags[k])

C20_Witness ==
  /\ Applied /\ output[1].exc = "none" /\ Len(input) = 2
  /\ Len(output[1].comments[1].body) = 5
  /\ Len(output[1].comments[2].body) = 1
  /\ output[1].comments[1].body[1].sev = "HIGH"

====
